---- MODULE Spec2Model ----
(***************************************************************************)
(* A model of re-tool (Stenodyon/re-tool), an interactive Game Boy ROM     *)
(* disassembler: the instruction decoder and address resolver of gb.rs and *)
(* the application loop of main.rs (cursor moves, mark Code / mark Data    *)
(* with the code-discovery worklist, goto / follow / back / forward        *)
(* history, bank assignment, labels).                                      *)
(*                                                                         *)
(* Rust panics (an index or a slice range out of bounds) are modelled as   *)
(* an explicit outcome: a decoder result tagged "Panic", and the program   *)
(* position pc = "fault", from which nothing more happens.                 *)
(***************************************************************************)
EXTENDS Integers, Sequences, FiniteSets, TLC

VARIABLES
    bytes,             \* byte_store.bytes: the ROM image, never written
    types,             \* byte_store.types: one ByteType per offset (0-based)
    type_changes,      \* the pending (ByteType, offset) worklist, top = last
    labels,            \* HashMap offset -> label
    banks,             \* HashMap read location -> bank number
    selected_address,  \* the view cursor
    follow_stack,      \* addresses from which a follow / goto was issued
    follow_stack_top,  \* the history cursor
    running,           \* Application::running
    pc,                \* where the program is: draw, input, drain, chain, fault, quit
    input,             \* handle_input's local: the key read by getch
    text,              \* the String read_line returned to the command being handled
    address,           \* handle_type_change's local cursor
    pass,              \* history of the mark Code command in progress (not program state)
    trail,             \* history of the current run of follows and backs (not program state)
    came_from,         \* history: the cursor when the key being handled was read, else -1
    window,            \* the byte window handed to the decoder (decoder specification)
    decoded,           \* the decoder's result for window
    query,             \* the (read_at, address, banks) handed to the resolver
    resolved,          \* the resolver's result for query
    rom,               \* Disassembler::state.rom
    state_byte_type,   \* Disassembler::state.byte_type
    branches,          \* Disassembler::mark_code's local worklist, top = last
    aligned            \* the last call of align_address_to_valid_location, else NoCall

vars == <<bytes, types, type_changes, labels, banks, selected_address,
          follow_stack, follow_stack_top, running, pc, input, text, address,
          pass, trail, came_from, window, decoded, query, resolved, rom,
          state_byte_type, branches, aligned>>

(***************************************************************************)
(* gb.rs: GBInstruction                                                    *)
(***************************************************************************)

\* Opcodes whose arm reads bytes[1..3] (a little-endian u16 operand).
LDd16Ops == {\h01, \h11, \h21, \h31}

\* Opcodes whose arm reads bytes[1] into LDd8.
LDd8Ops == {\h06, \h0E, \h16, \h1E, \h26, \h2E, \h36, \h3E}

\* RST opcodes.
RSTOps == {\hC7, \hCF, \hD7, \hDF, \hE7, \hEF, \hF7, \hFF}

\* The variant each opcode of from_bytes's match decodes to ("" : the `_` arm
\* and 0x76, which return None).
Variant(b) ==
    CASE b = \h00 -> "NOP"
      [] b \in LDd16Ops -> "LDd16"
      [] b \in {\h02, \h12} -> "LDi16A"
      [] b \in {\h03, \h13, \h23, \h33} -> "INC16"
      [] b \in {\h0B, \h1B, \h2B, \h3B} -> "DEC16"
      [] b \in {\h04, \h0C, \h14, \h1C, \h24, \h2C, \h34, \h3C} -> "INC8"
      [] b \in {\h05, \h0D, \h15, \h1D, \h25, \h2D, \h35, \h3D} -> "DEC8"
      [] b \in LDd8Ops -> "LDd8"
      [] b = \h19 -> "ADDHL"
      [] b = \h18 -> "JRr8"
      [] b = \h20 -> "JRNZr8"
      [] b = \h22 -> "LDHLincA"
      [] b = \h28 -> "JRZr8"
      [] b = \h2A -> "LDAHLdec"
      [] b = \h32 -> "LDHLdecA"
      [] b \in (\h40 .. \h7F) \ {\h76} -> "LD"
      [] b \in \h90 .. \h97 -> "SUB"
      [] b \in \hA0 .. \hA7 -> "AND"
      [] b \in \hA8 .. \hAF -> "XOR"
      [] b \in \hB0 .. \hB7 -> "OR"
      [] b \in \hB8 .. \hBF -> "CP"
      [] b = \hC0 -> "RETNZ"
      [] b = \hC2 -> "JPNZa16"
      [] b = \hC3 -> "JPa16"
      [] b \in RSTOps -> "RST"
      [] b = \hC9 -> "RET"
      [] b = \hCA -> "JPZa16"
      [] b = \hCB -> "Special"
      [] b = \hCD -> "CALLa16"
      [] b \in {\hC5, \hD5, \hE5, \hF5} -> "PUSH"
      [] b \in {\hC1, \hD1, \hE1, \hF1} -> "POP"
      [] b = \hE0 -> "LDHa8A"
      [] b = \hE2 -> "LDCA"
      [] b = \hE6 -> "ANDd8"
      [] b = \hE9 -> "JPHL"
      [] b = \hEA -> "LDa16A"
      [] b = \hF0 -> "LDHAa8"
      [] b = \hF3 -> "DI"
      [] b = \hFA -> "LDAa16"
      [] b = \hFB -> "EI"
      [] b = \hFE -> "CPd8"
      [] OTHER -> ""

\* Variants built from u16::from_le_bytes(bytes[1..3]).
Imm16Variants == {"LDd16", "JPNZa16", "JPa16", "JPZa16", "CALLa16", "LDa16A", "LDAa16"}

\* Variants built from bytes[1].
Imm8Variants == {"LDd8", "JRr8", "JRNZr8", "JRZr8", "LDHa8A", "ANDd8", "LDHAa8", "CPd8"}

\* SpecialInstruction::from_byte: the CB-prefixed opcodes that decode.
SpecialBytes == {\h12, \h23, \h87}

\* u16::from_le_bytes
FromLeBytes(lo, hi) == lo + 256 * hi

\* `byte as i8` read as unsigned.
AsI8_Unsigned(b) == b

\* `byte as i8`
AsI8(b) == IF b >= 128 THEN b - 256 ELSE b

\* ResetVector::address of the RST opcode b.
ResetVectorAddress(b) == b - \hC7

NoInstruction == [tag |-> "None"]
DecodePanic == [tag |-> "Panic"]
SomeInstruction(v, a) == [tag |-> "Some", variant |-> v, arg |-> a]

\* GBInstruction::from_bytes on the slice w (a sequence of bytes). An index past
\* the slice (bytes[0] of an empty slice, bytes[1], bytes[1..3]) panics.
from_bytes(w) ==
    IF Len(w) < 1 THEN DecodePanic
    ELSE LET b == w[1]
             v == Variant(b)
         IN  CASE v = "" -> NoInstruction
               [] v \in Imm16Variants ->
                    IF Len(w) < 3 THEN DecodePanic
                    ELSE SomeInstruction(v, FromLeBytes(w[2], w[3]))
               [] v \in {"JRr8", "JRNZr8", "JRZr8"} ->
                    IF Len(w) < 2 THEN DecodePanic
                    ELSE SomeInstruction(v, AsI8(w[2]))
               [] v \in Imm8Variants ->
                    IF Len(w) < 2 THEN DecodePanic
                    ELSE SomeInstruction(v, w[2])
               [] v = "Special" ->
                    IF Len(w) < 2 THEN DecodePanic
                    ELSE IF w[2] \in SpecialBytes
                         THEN SomeInstruction(v, w[2])
                         ELSE NoInstruction
               [] v = "RST" -> SomeInstruction(v, ResetVectorAddress(b))
               [] OTHER -> SomeInstruction(v, 0)

\* Instruction::size
size(ins) ==
    CASE ins.variant \in Imm16Variants -> 3
      [] ins.variant \in Imm8Variants \cup {"Special"} -> 2
      [] OTHER -> 1

\* Instruction::falls_through
falls_through(ins) == ins.variant \notin {"JPa16", "JPHL", "RET", "JRr8"}

\* GBInstruction::jump_address: the UnmappedAddress, or -1 for None.
jump_address(ins) ==
    CASE ins.variant \in {"JPa16", "CALLa16", "JPZa16", "JPNZa16"} -> ins.arg
      [] ins.variant = "RST" -> ins.arg
      [] OTHER -> -1

\* disassembler.rs: LogicalAddress
Absolute(a) == [kind |-> "Absolute", value |-> a]
Relative(o) == [kind |-> "Relative", value |-> o]
NoAddress == [kind |-> "None"]

\* Instruction::branch_address of GBInstruction: the LogicalAddress, or NoAddress
\* for None. A relative jump's offset counts from the next instruction.
branch_address(ins) ==
    CASE ins.variant \in {"JPa16", "CALLa16", "JPZa16", "JPNZa16"} -> Absolute(ins.arg)
      [] ins.variant \in {"JRr8", "JRZr8", "JRNZr8"} -> Relative(ins.arg + size(ins))
      [] ins.variant = "RST" -> Absolute(ins.arg)
      [] OTHER -> NoAddress

\* Option<usize>. A usize is 64 bits wide: a negative value v stands for the
\* wrapped value 2^64 + v, which is past the end of every image.
NoOffset == [tag |-> "None"]
SomeOffset(v) == [tag |-> "Some", value |-> v]

\* usize::wrapping_add(location, offset as usize), in the representation above.
wrapping_add(location, offset) == location + offset

\* Architecture::resolve_address of GameBoy.
resolve_address(la, location) ==
    CASE la.kind = "Absolute" ->
              IF la.value < \h4000 THEN SomeOffset(la.value) ELSE NoOffset
      [] la.kind = "Relative" -> SomeOffset(wrapping_add(location, la.value))
      [] OTHER -> NoOffset

(***************************************************************************)
(* main.rs: ByteStore, ResolvedAddress, address resolution                 *)
(***************************************************************************)

\* The image length (byte_store.bytes.len()).
N == Len(bytes)

Offsets == 0 .. (N - 1)

\* &self.byte_store.bytes[address..], for address <= N (a larger address panics
\* at the slice, which the callers below check).
Slice(a) == SubSeq(bytes, a + 1, N)

\* Application::instruction_at. The slice range panics when address > N, the
\* decoder when the window is empty or holds too few operand bytes.
instruction_at(a) == IF a > N THEN DecodePanic ELSE from_bytes(Slice(a))

Physical(a) == [kind |-> "Physical", value |-> a]
UnknownBank(a) == [kind |-> "UnknownBank", value |-> a]
System(a) == [kind |-> "System", value |-> a]

\* get without the match: the value of any variant is handed out as an offset.
Get_AnyVariant(r) == r.value

\* ResolvedAddress::get: the physical offset, or -1 for None.
Get(r) == IF r.kind = "Physical" THEN r.value ELSE -1

\* resolve_physical_address without the inference of the bank from a read
\* location in the switchable window.
resolve_physical_address_NoInference(read_at, a, bankmap) ==
    IF a < \h4000 THEN Physical(a)
    ELSE IF a < \h8000
         THEN IF read_at \in DOMAIN bankmap
              THEN Physical(bankmap[read_at] * \h4000 + (a % \h4000))
              ELSE UnknownBank(a % \h4000)
         ELSE System(a)

\* resolve_physical_address with the two tests in the other order: the bank map
\* is consulted before the read location.
resolve_physical_address_MapFirst(read_at, a, bankmap) ==
    IF a < \h4000 THEN Physical(a)
    ELSE IF a < \h8000
         THEN LET offset == a % \h4000
              IN  IF read_at \in DOMAIN bankmap
                  THEN Physical(bankmap[read_at] * \h4000 + offset)
                  ELSE IF read_at >= \h4000 /\ read_at < \h8000
                       THEN Physical((read_at \div \h4000) * \h4000 + offset)
                       ELSE UnknownBank(a % \h4000)
         ELSE System(a)

\* Application::resolve_physical_address, with self.banks passed as bankmap.
resolve_physical_address(read_at, a, bankmap) ==
    IF a < \h4000 THEN Physical(a)
    ELSE IF a < \h8000
         THEN LET offset == a % \h4000
              IN  IF read_at >= \h4000 /\ read_at < \h8000
                  THEN Physical((read_at \div \h4000) * \h4000 + offset)
                  ELSE IF read_at \in DOMAIN bankmap
                       THEN Physical(bankmap[read_at] * \h4000 + offset)
                       ELSE UnknownBank(a % \h4000)
         ELSE System(a)

\* The physical offset the instruction at read_at jumps to, as the `f` command and
\* handle_type_change compute it: jump_address, resolved, .get(); -1 for None.
JumpTarget(read_at, ins) ==
    IF jump_address(ins) = -1 THEN -1
    ELSE Get(resolve_physical_address(read_at, jump_address(ins), banks))

\* next_valid_address without the decode: always one byte on.
next_valid_address_OneByte(a) == IF a >= N THEN -1 ELSE a + 1

\* Application::next_valid_address; -1 stands for a panic.
next_valid_address(a) ==
    IF a >= N THEN -1
    ELSE IF types[a] = "Code"
         THEN LET ins == instruction_at(a)
              IN  CASE ins.tag = "Panic" -> -1
                    [] ins.tag = "Some" -> a + size(ins)
                    [] OTHER -> a + 1
         ELSE a + 1

\* One probe of snap_to_valid_address's loop: 1 when the instruction at
\* a - backoffset is Code and spans past backoffset (return it), -1 on a panic,
\* 0 to go on.
SnapProbe(a, backoffset) ==
    LET o == a - backoffset
    IN  IF o >= N THEN -1
        ELSE IF types[o] # "Code" THEN 0
        ELSE LET ins == instruction_at(o)
             IN  CASE ins.tag = "Panic" -> -1
                   [] ins.tag = "Some" /\ size(ins) > backoffset -> 1
                   [] OTHER -> 0

\* Application::snap_to_valid_address: backoffset runs over 1..3.min(address + 1),
\* end excluded; -1 stands for a panic.
snap_to_valid_address(a) ==
    LET hi == IF a + 1 < 3 THEN a + 1 ELSE 3
        p1 == IF 1 < hi THEN SnapProbe(a, 1) ELSE 0
        p2 == IF 2 < hi THEN SnapProbe(a, 2) ELSE 0
    IN  CASE p1 = -1 -> -1
          [] p1 = 1 -> a - 1
          [] p2 = -1 -> -1
          [] p2 = 1 -> a - 2
          [] OTHER -> a

(***************************************************************************)
(* main.rs: the navigation history                                         *)
(***************************************************************************)

\* push_follow without the overwrite branch: the address is always appended.
push_follow_stack_AlwaysAppend(a) == Append(follow_stack, a)

\* Application::push_follow: the new follow_stack.
push_follow_stack(a) ==
    IF follow_stack_top = Len(follow_stack)
    THEN Append(follow_stack, a)
    ELSE [follow_stack EXCEPT ![follow_stack_top + 1] = a]

\* push_follow advancing the history cursor by two.
push_follow_top_Skips == follow_stack_top + 2

\* Application::push_follow: the new follow_stack_top.
push_follow_top == follow_stack_top + 1

\* Application::follow_stack_previous: the address returned, -1 for None.
follow_stack_previous ==
    IF follow_stack_top = 0 THEN -1 ELSE follow_stack[follow_stack_top]

\* follow_stack_next without the test for the newest entry: there it returns
\* the first entry again.
follow_stack_next_Wraps ==
    IF follow_stack = <<>> THEN -1
    ELSE IF follow_stack_top = Len(follow_stack) THEN follow_stack[1]
         ELSE follow_stack[follow_stack_top + 1]

\* Application::follow_stack_next: the address returned, -1 for None.
follow_stack_next ==
    IF follow_stack_top = Len(follow_stack) THEN -1
    ELSE follow_stack[follow_stack_top + 1]

(***************************************************************************)
(* read_line and usize::from_str_radix(_, 16)                              *)
(***************************************************************************)

\* The value of a hexadecimal digit, -1 for any other character.
HexDigit(c) ==
    CASE c = "0" -> 0 [] c = "1" -> 1 [] c = "2" -> 2 [] c = "3" -> 3
      [] c = "4" -> 4 [] c = "5" -> 5 [] c = "6" -> 6 [] c = "7" -> 7
      [] c = "8" -> 8 [] c = "9" -> 9
      [] c \in {"a", "A"} -> 10 [] c \in {"b", "B"} -> 11
      [] c \in {"c", "C"} -> 12 [] c \in {"d", "D"} -> 13
      [] c \in {"e", "E"} -> 14 [] c \in {"f", "F"} -> 15
      [] OTHER -> -1

RECURSIVE HexDigits(_, _)
\* The digits of s (a sequence of characters) folded onto acc; -1 on a character
\* that is no hexadecimal digit.
HexDigits(s, acc) ==
    IF s = <<>> THEN acc
    ELSE IF HexDigit(Head(s)) = -1 THEN -1
         ELSE HexDigits(Tail(s), acc * 16 + HexDigit(Head(s)))

\* usize::from_str_radix(s, 16): the value, or -1 for Err (empty text, a lone
\* sign, a character that is no digit). A leading "+" is accepted.
from_str_radix(s) ==
    IF s = <<>> THEN -1
    ELSE LET digits == IF Head(s) = "+" THEN Tail(s) ELSE s
         IN  IF digits = <<>> THEN -1 ELSE HexDigits(digits, 0)

(***************************************************************************)
(* Bounds of the model                                                     *)
(***************************************************************************)

\* The follow stack holds at most MaxFollow entries: goto and follow are not
\* taken once follow_stack_top has reached it.
MaxFollow == 1

\* The ROM images the application is started on.
Images ==
    { <<\h00, \hC3, \h00, \h00>>,     \* NOP; JP 0000
      <<\hC9, \hC7, \hC7, \hC9>>,     \* RET; RST 00; RST 00; RET
      <<\hCA, \h03, \h00, \hC9>>,     \* JP Z 0003; RET
      <<\h06, \hC9, \hC9>>,           \* LD B, C9; RET
      <<\hD3, \hC9>>,                 \* illegal; RET
      <<\hC3, \h00, \h40, \hC9>>,     \* JP 4000 (switchable window); RET
      <<\hC3, \h07, \h00, \hC9>>,     \* JP 0007 (past the image); RET
      <<\h18, \h00, \hC9>>,           \* JR +0; RET
      <<\h00, \hC3>>,                 \* NOP; a JP cut by the end of the image
      <<\h00>> }                      \* NOP

\* The texts read_line returns to the goto prompt.
Lines == { <<"0">>, <<"1">>, <<"2">>, <<"3">>, <<"4">>, <<>>, <<"x">> }

(***************************************************************************)
(* History variables                                                       *)
(***************************************************************************)

EmptyMap == [o \in {} |-> 0]

\* No mark Code command in progress; last: the seed of the command just
\* completed when it was a mark Code, else -1.
NoPass(last) == [seed |-> -1, before |-> <<>>, visits |-> <<>>, prev |-> -1, last |-> last]

\* A mark Code command starts at seed s: the tags before it, no offset visited,
\* and the seed of the mark Code command that immediately preceded it (or -1).
StartPass(s) ==
    [seed |-> s, before |-> types, visits |-> [o \in Offsets |-> 0],
     prev |-> pass.last, last |-> s]

\* The pass visits offset a (pops it, or decodes it as the chain cursor).
Visit(p, a) == [p EXCEPT !.visits[a] = @ + 1]

NoTrail == [xs |-> <<>>, backs |-> 0, kback |-> 0, fab |-> 0, dest |-> -1]

\* A follow or goto that pushed history, issued at cursor c and moving the
\* cursor to y.
TrailFollow(c, y) ==
    [xs |-> IF trail.backs = 0 THEN Append(trail.xs, c) ELSE <<c>>,
     backs |-> 0, kback |-> 0, fab |-> trail.kback, dest |-> y]

\* A back step that moved the history cursor.
TrailBack ==
    IF trail.backs < Len(trail.xs)
    THEN [xs |-> trail.xs, backs |-> trail.backs + 1, kback |-> trail.kback + 1,
          fab |-> 0, dest |-> trail.dest]
    ELSE [xs |-> <<>>, backs |-> 0, kback |-> trail.kback + 1, fab |-> 0,
          dest |-> -1]

(***************************************************************************)
(* main.rs: Application::new, run, draw_header                             *)
(***************************************************************************)

\* No call of align_address_to_valid_location was made.
NoCall == [address |-> -1, byte_type |-> "Unknown", result |-> -1]

\* No Disassembler has been constructed.
DisIdle ==
    /\ rom = <<>>
    /\ state_byte_type = <<>>
    /\ branches = <<>>
    /\ aligned = NoCall

PureIdle ==
    /\ window = <<>>
    /\ decoded = "idle"
    /\ query = "idle"
    /\ resolved = "idle"
    /\ DisIdle

\* Application::new on the ROM image `bytes`, and run's `self.running = true`.
New ==
    /\ types = [o \in Offsets |-> "Unknown"]
    /\ type_changes = <<>>
    /\ labels = EmptyMap
    /\ banks = EmptyMap
    /\ selected_address = 0
    /\ follow_stack = <<>>
    /\ follow_stack_top = 0
    /\ running = TRUE
    /\ pc = "draw"
    /\ input = "None"
    /\ text = <<>>
    /\ address = 0
    /\ pass = NoPass(-1)
    /\ trail = NoTrail
    /\ came_from = -1
    /\ PureIdle

Init ==
    /\ bytes \in Images
    /\ New

dis_vars == <<rom, state_byte_type, branches, aligned>>
pure_vars == <<window, decoded, query, resolved, dis_vars>>
store_vars == <<types, type_changes, labels, address>>
nav_vars == <<selected_address, follow_stack, follow_stack_top>>
fixed_vars == <<bytes, running, text, pure_vars>>

\* Whether draw_header panics: it decodes at the cursor whatever its tag, and
\* indexes types at the cursor.
DrawPanics ==
    \/ selected_address >= N
    \/ instruction_at(selected_address).tag = "Panic"

\* The top of run's loop: the header and the listing are drawn. The listing
\* (draw_byte_store) decodes only at Code-tagged offsets, which were decoded when
\* they were tagged; its scroll position base_address is not modelled.
Draw ==
    /\ pc = "draw"
    /\ pc' = IF DrawPanics THEN "fault" ELSE "input"
    /\ pass' = NoPass(pass.last)
    /\ UNCHANGED <<fixed_vars, store_vars, banks, nav_vars, input, trail, came_from>>

(***************************************************************************)
(* main.rs: Application::handle_input, one action per key                  *)
(***************************************************************************)

\* A key that changes nothing but is a command: the history variables forget
\* the run of commands before it.
Forget ==
    /\ pass' = NoPass(-1)
    /\ trail' = NoTrail

\* getch returned None, a key with no arm, or `k` at offset 0.
InputOther ==
    /\ pc = "input"
    /\ \E key \in {"None", "x"} \cup (IF selected_address = 0 THEN {"k"} ELSE {}) :
          input' = key
    /\ came_from' = selected_address
    /\ pc' = "drain"
    /\ Forget
    /\ UNCHANGED <<fixed_vars, store_vars, banks, nav_vars>>

\* Escape or `q`: running = false. The pending queue is still drained before
\* the loop tests running.
InputQuit ==
    /\ pc = "input"
    /\ input' = "q"
    /\ came_from' = selected_address
    /\ running' = FALSE
    /\ pc' = "drain"
    /\ Forget
    /\ UNCHANGED <<bytes, text, pure_vars, store_vars, banks, nav_vars>>

\* `j` that also queues (Code, cursor), as the `c` arm does.
InputJ_MarksCode ==
    /\ pc = "input"
    /\ input' = "j"
    /\ came_from' = selected_address
    /\ type_changes' = Append(type_changes, <<"Code", selected_address>>)
    /\ LET next == next_valid_address(selected_address)
       IN  IF next = -1
           THEN pc' = "fault" /\ UNCHANGED selected_address
           ELSE pc' = "drain" /\ selected_address' = next
    /\ Forget
    /\ UNCHANGED <<fixed_vars, types, labels, address, banks, follow_stack,
                   follow_stack_top>>

\* `j`: the cursor moves to next_valid_address.
InputJ ==
    /\ pc = "input"
    /\ input' = "j"
    /\ came_from' = selected_address
    /\ LET next == next_valid_address(selected_address)
       IN  IF next = -1
           THEN pc' = "fault" /\ UNCHANGED selected_address
           ELSE pc' = "drain" /\ selected_address' = next
    /\ Forget
    /\ UNCHANGED <<fixed_vars, store_vars, banks, follow_stack, follow_stack_top>>

\* `k` with the cursor past offset 0: the cursor moves back one byte and snaps.
InputK ==
    /\ pc = "input"
    /\ selected_address > 0
    /\ input' = "k"
    /\ came_from' = selected_address
    /\ LET snapped == snap_to_valid_address(selected_address - 1)
       IN  IF snapped = -1
           THEN pc' = "fault" /\ UNCHANGED selected_address
           ELSE pc' = "drain" /\ selected_address' = snapped
    /\ Forget
    /\ UNCHANGED <<fixed_vars, store_vars, banks, follow_stack, follow_stack_top>>

\* `c`: (Code, cursor) is pushed on the pending queue.
InputC ==
    /\ pc = "input"
    /\ input' = "c"
    /\ came_from' = selected_address
    /\ type_changes' = Append(type_changes, <<"Code", selected_address>>)
    /\ pc' = "drain"
    /\ pass' = StartPass(selected_address)
    /\ trail' = NoTrail
    /\ UNCHANGED <<fixed_vars, types, labels, address, banks, nav_vars>>

\* `d` queueing offset 0 in place of the cursor.
InputD_AtZero ==
    /\ pc = "input"
    /\ input' = "d"
    /\ came_from' = selected_address
    /\ type_changes' = Append(type_changes, <<"Data", 0>>)
    /\ pc' = "drain"
    /\ Forget
    /\ UNCHANGED <<fixed_vars, types, labels, address, banks, nav_vars>>

\* `d`: (Data, cursor) is pushed on the pending queue.
InputD ==
    /\ pc = "input"
    /\ input' = "d"
    /\ came_from' = selected_address
    /\ type_changes' = Append(type_changes, <<"Data", selected_address>>)
    /\ pc' = "drain"
    /\ Forget
    /\ UNCHANGED <<fixed_vars, types, labels, address, banks, nav_vars>>

\* `G`: the text read is parsed as hexadecimal; on Ok the cursor is pushed on
\* the history and moved to the address, on Err nothing happens.
InputG(cap, lines) ==
    /\ pc = "input"
    /\ follow_stack_top < cap
    /\ input' = "G"
    /\ came_from' = selected_address
    /\ \E line \in lines :
          LET a == from_str_radix(line)
          IN  /\ text' = line
              /\ IF a = -1
                 THEN /\ UNCHANGED nav_vars
                      /\ trail' = NoTrail
                 ELSE /\ follow_stack' = push_follow_stack(selected_address)
                      /\ follow_stack_top' = push_follow_top
                      /\ selected_address' = a
                      /\ trail' = TrailFollow(selected_address, a)
    /\ pc' = "drain"
    /\ pass' = NoPass(-1)
    /\ UNCHANGED <<bytes, running, pure_vars, store_vars, banks>>

\* `f`: when the cursor is on a Code-tagged instruction whose jump address
\* resolves to a physical offset, the cursor is pushed on the history and moved
\* to that offset.
InputF(cap) ==
    /\ pc = "input"
    /\ follow_stack_top < cap
    /\ input' = "f"
    /\ came_from' = selected_address
    /\ pass' = NoPass(-1)
    /\ IF types[selected_address] # "Code"
       THEN pc' = "drain" /\ trail' = NoTrail /\ UNCHANGED nav_vars
       ELSE LET ins == instruction_at(selected_address)
            IN  CASE ins.tag = "Panic" ->
                       pc' = "fault" /\ trail' = NoTrail /\ UNCHANGED nav_vars
                  [] ins.tag = "Some" /\ JumpTarget(selected_address, ins) # -1 ->
                       /\ pc' = "drain"
                       /\ follow_stack' = push_follow_stack(selected_address)
                       /\ follow_stack_top' = push_follow_top
                       /\ selected_address' = JumpTarget(selected_address, ins)
                       /\ trail' = TrailFollow(selected_address,
                                               JumpTarget(selected_address, ins))
                  [] OTHER ->
                       pc' = "drain" /\ trail' = NoTrail /\ UNCHANGED nav_vars
    /\ UNCHANGED <<fixed_vars, store_vars, banks>>

\* `o`: a step back in the history.
InputO ==
    /\ pc = "input"
    /\ input' = "o"
    /\ came_from' = selected_address
    /\ pc' = "drain"
    /\ pass' = NoPass(-1)
    /\ IF follow_stack_previous = -1
       THEN trail' = NoTrail /\ UNCHANGED nav_vars
       ELSE /\ follow_stack_top' = follow_stack_top - 1
            /\ selected_address' = follow_stack_previous
            /\ trail' = TrailBack
            /\ UNCHANGED follow_stack
    /\ UNCHANGED <<fixed_vars, store_vars, banks>>

\* `i`: a step forward in the history.
InputI ==
    /\ pc = "input"
    /\ input' = "i"
    /\ came_from' = selected_address
    /\ pc' = "drain"
    /\ Forget
    /\ IF follow_stack_next = -1
       THEN UNCHANGED nav_vars
       ELSE /\ follow_stack_top' = follow_stack_top + 1
            /\ selected_address' = follow_stack_next
            /\ UNCHANGED follow_stack
    /\ UNCHANGED <<fixed_vars, store_vars, banks>>

\* `b`: the text read is parsed as hexadecimal; on Ok the bank is assigned to
\* the cursor's location.
InputB(lines) ==
    /\ pc = "input"
    /\ input' = "b"
    /\ came_from' = selected_address
    /\ pc' = "drain"
    /\ Forget
    /\ \E line \in lines :
          LET bank == from_str_radix(line)
          IN  /\ text' = line
              /\ IF bank = -1
                 THEN UNCHANGED banks
                 ELSE banks' = (selected_address :> bank) @@ banks
    /\ UNCHANGED <<bytes, running, pure_vars, store_vars, nav_vars>>

\* The names read_line returns to the label prompt.
LabelNames == { <<>>, <<"a">> }

\* is_empty with the answer fixed: no label is taken as empty.
is_empty_Never(label) == FALSE

\* String::is_empty
is_empty(label) == label = <<>>

\* `l`: a label that is not empty is bound to the cursor.
InputL ==
    /\ pc = "input"
    /\ input' = "l"
    /\ came_from' = selected_address
    /\ pc' = "drain"
    /\ Forget
    /\ \E label \in LabelNames :
          /\ text' = label
          /\ IF is_empty(label)
             THEN UNCHANGED labels
             ELSE labels' = (selected_address :> label) @@ labels
    /\ UNCHANGED <<bytes, running, pure_vars, types, type_changes, address, banks,
                   nav_vars>>

(***************************************************************************)
(* main.rs: Application::handle_type_changes, handle_type_change           *)
(***************************************************************************)

\* format!("LOC_{:06X}", physical_address): the name carries the offset.
DefaultLabel(p) == <<"LOC", p>>

\* DrainFinished off by one: the loop leaves the last item on the queue.
DrainFinished_LeavesOne == Len(type_changes) <= 1

\* DrainFinished with the loop never entered.
DrainFinished_Always == TRUE

\* handle_type_changes's loop test: the queue is drained.
DrainFinished == type_changes = <<>>

\* handle_type_changes returns; run's loop tests running.
DrainDone ==
    /\ pc = "drain"
    /\ DrainFinished
    /\ pc' = IF running THEN "draw" ELSE "quit"
    /\ input' = "None"
    /\ text' = <<>>
    /\ came_from' = -1
    /\ UNCHANGED <<bytes, running, pure_vars, store_vars, banks, nav_vars, pass,
                   trail>>

\* handle_type_change, lines 172-176: the top item is popped and its tag is
\* written at its offset; a Code item starts a chain there.
HandleTypeChange ==
    /\ pc = "drain"
    /\ ~DrainFinished
    /\ LET item == type_changes[Len(type_changes)]
           byte_type == item[1]
           a == item[2]
       IN  /\ type_changes' = SubSeq(type_changes, 1, Len(type_changes) - 1)
           /\ address' = a
           /\ IF a >= N
              THEN pc' = "fault" /\ UNCHANGED <<types, pass>>
              ELSE /\ types' = [types EXCEPT ![a] = byte_type]
                   /\ pc' = IF byte_type = "Code" THEN "chain" ELSE "drain"
                   /\ pass' = IF byte_type = "Code" /\ pass.seed # -1
                              THEN Visit(pass, a) ELSE pass
    /\ UNCHANGED <<fixed_vars, labels, banks, nav_vars, input, trail, came_from>>

\* PushesTarget with the answer fixed: no target is pushed.
PushesTarget_Never(p) == FALSE

\* PushesTarget with the test dropped: every resolved target is pushed.
PushesTarget_Always(p) == TRUE

\* Whether the branch target p of the instruction being processed is pushed on
\* the queue (line 185).
PushesTarget(p) == types[p] = "Unknown"

\* LabelsTarget with the test dropped: the default label is always inserted.
LabelsTarget_Always(p) == TRUE

\* Whether the branch target p is given its default label (line 189).
LabelsTarget(p) == p \notin DOMAIN labels

\* StopsAt with the test dropped: a chain tags whatever it advances to.
StopsAt_Never(a) == FALSE

\* StopsAt with the test narrowed to Code: a chain runs on over a Data tag.
StopsAt_OnlyAtCode(a) == types[a] = "Code"

\* Whether the chain stops at the offset a it has advanced to (line 199).
StopsAt(a) == types[a] # "Unknown"

\* One turn of handle_type_change's while loop (lines 177-203) at the cursor
\* `address`: decode; resolve the jump address, push it when Unknown and label
\* it; stop unless the instruction falls through; advance; stop at a tag that is
\* not Unknown, else tag the new cursor Code.
ChainStep ==
    /\ pc = "chain"
    /\ LET ins == instruction_at(address)
           p == IF ins.tag = "Some" THEN JumpTarget(address, ins) ELSE -1
           next == address + size(ins)
       IN  CASE ins.tag = "Panic" ->
                  pc' = "fault" /\ UNCHANGED <<types, type_changes, labels, address, pass>>
             [] ins.tag = "None" ->
                  pc' = "drain" /\ UNCHANGED <<types, type_changes, labels, address, pass>>
             [] ins.tag = "Some" /\ p >= N ->
                  \* types[physical_address] is indexed past the table
                  pc' = "fault" /\ UNCHANGED <<types, type_changes, labels, address, pass>>
             [] OTHER ->
                  /\ type_changes' = IF p # -1 /\ PushesTarget(p)
                                     THEN Append(type_changes, <<"Code", p>>)
                                     ELSE type_changes
                  /\ labels' = IF p # -1 /\ LabelsTarget(p)
                               THEN (p :> DefaultLabel(p)) @@ labels
                               ELSE labels
                  /\ IF ~falls_through(ins)
                     THEN pc' = "drain" /\ UNCHANGED <<types, address, pass>>
                     ELSE /\ address' = next
                          /\ IF next >= N
                             THEN pc' = "fault" /\ UNCHANGED <<types, pass>>
                             ELSE IF StopsAt(next)
                                  THEN pc' = "drain" /\ UNCHANGED <<types, pass>>
                                  ELSE /\ types' = [types EXCEPT ![next] = "Code"]
                                       /\ pc' = "chain"
                                       /\ pass' = IF pass.seed # -1
                                                  THEN Visit(pass, next) ELSE pass
    /\ UNCHANGED <<fixed_vars, banks, nav_vars, input, trail, came_from>>

(***************************************************************************)
(* The application: every command but bank assignment and label            *)
(***************************************************************************)

Next ==
    \/ Draw
    \/ InputOther
    \/ InputQuit
    \/ InputJ
    \/ InputK
    \/ InputC
    \/ InputD
    \/ InputG(MaxFollow, Lines)
    \/ InputF(MaxFollow)
    \/ InputO
    \/ InputI
    \/ DrainDone
    \/ HandleTypeChange
    \/ ChainStep

Spec == Init /\ [][Next]_vars

(***************************************************************************)
(* The application restricted to navigation, with a deeper history         *)
(***************************************************************************)

\* The follow stack of the navigation specification holds at most NavDepth
\* entries.
NavDepth == 3

NavImages ==
    { <<\hC9, \hC7, \hC7, \hC9>>,     \* RET; RST 00; RST 00; RET
      <<\h00, \hC3, \h00, \h00>> }    \* NOP; JP 0000

NavLines == { <<"1">>, <<"2">>, <<"4">>, <<"x">> }

InitNav ==
    /\ bytes \in NavImages
    /\ New

NextNav ==
    \/ Draw
    \/ InputC
    \/ InputG(NavDepth, NavLines)
    \/ InputF(NavDepth)
    \/ InputO
    \/ InputI
    \/ DrainDone
    \/ HandleTypeChange
    \/ ChainStep

SpecNav == InitNav /\ [][NextNav]_vars

(***************************************************************************)
(* The application restricted to cursor moves and marking                  *)
(***************************************************************************)

AlignImages ==
    { <<\hC3, \h01, \h00, \hC9, \hC9>>,  \* JP 0001, whose operand is LD BC, C900; RET
      <<\h06, \hC9, \hC9>>,              \* LD B, C9; RET
      <<\hCA, \h03, \h00, \hC9>>,        \* JP Z 0003; RET
      <<\h00, \hD3, \hC9>>,              \* NOP; illegal; RET
      <<\hC9, \h00, \hD3>> }             \* RET; NOP; illegal

InitAlign ==
    /\ bytes \in AlignImages
    /\ New

NextAlign ==
    \/ Draw
    \/ InputJ
    \/ InputK
    \/ InputC
    \/ InputD
    \/ DrainDone
    \/ HandleTypeChange
    \/ ChainStep

SpecAlign == InitAlign /\ [][NextAlign]_vars

(***************************************************************************)
(* The application restricted to labels, banks, goto and marking           *)
(***************************************************************************)

LabelImages ==
    { <<\hC7, \hC9>>,                    \* RST 00; RET
      <<\hC9, \hC7, \hC9>>,              \* RET; RST 00; RET
      <<\hC3, \h00, \h40>> }             \* JP 4000 (switchable window)

\* The texts read_line returns to the goto prompt.
LabelLines == { <<"1">>, <<>>, <<"x">>, <<"+">>, <<"1", "g">> }

\* The texts read_line returns to the bank prompt.
BankLines == { <<"0">>, <<"1">>, <<>>, <<"x">> }

InitLabel ==
    /\ bytes \in LabelImages
    /\ New

NextLabel ==
    \/ Draw
    \/ InputJ
    \/ InputC
    \/ InputG(MaxFollow, LabelLines)
    \/ InputB(BankLines)
    \/ InputL
    \/ DrainDone
    \/ HandleTypeChange
    \/ ChainStep

SpecLabel == InitLabel /\ [][NextLabel]_vars

(***************************************************************************)
(* The application with every command, on short images                     *)
(***************************************************************************)

AllImages ==
    { <<\hC7, \hC9>>,                    \* RST 00; RET
      <<\hC3, \h00, \h40>>,              \* JP 4000 (switchable window)
      <<\hC3, \h00, \h80>> }             \* JP 8000 (system window)

\* The texts read_line returns to the goto prompt.
AllLines == { <<"1">>, <<"x">> }

\* The texts read_line returns to the bank prompt.
AllBankLines == { <<"0">>, <<"x">> }

InitAll ==
    /\ bytes \in AllImages
    /\ New

NextAll ==
    \/ Draw
    \/ InputOther
    \/ InputQuit
    \/ InputJ
    \/ InputK
    \/ InputC
    \/ InputD
    \/ InputG(MaxFollow, AllLines)
    \/ InputF(MaxFollow)
    \/ InputO
    \/ InputI
    \/ InputB(AllBankLines)
    \/ InputL
    \/ DrainDone
    \/ HandleTypeChange
    \/ ChainStep

SpecAll == InitAll /\ [][NextAll]_vars

(***************************************************************************)
(* The decoder alone: from_bytes applied to a byte window                  *)
(***************************************************************************)

\* Windows hold at most MaxWindow bytes.
MaxWindow == 3

\* The bytes windows are made of: NOP, LD B d8, RL D / LD (DE) A, JR, JP a16,
\* the CB prefix, an opcode with no arm.
DecodeBytes == {\h00, \h06, \h12, \h18, \hC3, \hCB, \hD3}

Windows == UNION { [1 .. n -> DecodeBytes] : n \in 0 .. MaxWindow }

AppIdle ==
    /\ bytes = <<>>
    /\ types = <<>>
    /\ type_changes = <<>>
    /\ labels = EmptyMap
    /\ banks = EmptyMap
    /\ selected_address = 0
    /\ follow_stack = <<>>
    /\ follow_stack_top = 0
    /\ running = FALSE
    /\ input = "None"
    /\ text = <<>>
    /\ address = 0
    /\ pass = NoPass(-1)
    /\ trail = NoTrail
    /\ came_from = -1

app_vars == <<bytes, types, type_changes, labels, banks, selected_address,
              follow_stack, follow_stack_top, running, input, text, address,
              pass, trail, came_from>>

InitDecode ==
    /\ AppIdle
    /\ pc = "decode"
    /\ window \in Windows
    /\ decoded = "idle"
    /\ query = "idle"
    /\ resolved = "idle"
    /\ DisIdle

\* GameBoy::disassemble / GBInstruction::from_bytes is called on the window.
Decode ==
    /\ pc = "decode"
    /\ decoded' = from_bytes(window)
    /\ pc' = "decoded"
    /\ UNCHANGED <<app_vars, window, query, resolved, dis_vars>>

SpecDecode == InitDecode /\ [][Decode]_vars

(***************************************************************************)
(* The resolver alone: resolve_physical_address applied to a query         *)
(***************************************************************************)

\* Read locations (physical offsets of the instruction read): in bank 0, in
\* bank 1 (the range the code tests for), in banks 2 and 3.
ReadLocations == {\h0000, \h0150, \h3FFF, \h4000, \h4500, \h7FFF, \h8000, \h8500, \hC000}

\* Absolute addresses: fixed window, switchable window, system window.
Addresses == {\h0000, \h0150, \h3FFF, \h4000, \h5000, \h7FFF, \h8000, \hFF00, \hFFFF}

\* Bank maps: empty, or one read location assigned a bank.
BankMaps == {EmptyMap} \cup { r :> b : r \in ReadLocations, b \in 0 .. 2 }

InitResolve ==
    /\ AppIdle
    /\ pc = "resolve"
    /\ window = <<>>
    /\ decoded = "idle"
    /\ query \in [read_at : ReadLocations, addr : Addresses, banks : BankMaps]
    /\ resolved = "idle"
    /\ DisIdle

\* resolve_physical_address is called on the query.
Resolve ==
    /\ pc = "resolve"
    /\ resolved' = resolve_physical_address(query.read_at, query.addr, query.banks)
    /\ pc' = "resolved"
    /\ UNCHANGED <<app_vars, window, decoded, query, dis_vars>>

SpecResolve == InitResolve /\ [][Resolve]_vars

(***************************************************************************)
(* Branch resolution alone: Disassembler::resolve_branch_address           *)
(***************************************************************************)

\* First bytes of the windows: JR, JR NZ, JR Z, and NOP, which has no branch
\* address.
RelativeOps == {\h18, \h20, \h28, \h00}

\* &rom[location..] as far as the decoder reads it: an opcode and its operand.
RelativeWindows == { <<op, b>> : op \in RelativeOps, b \in 0 .. 255 }

\* Locations of the instruction: where every displacement stays at or above
\* offset 0, where the lowest ones do not, and inside a larger rom.
RelativeLocations == {0, 1, 126, 127, \h0150, \h3FFE}

InitRelative ==
    /\ AppIdle
    /\ pc = "relative"
    /\ window \in RelativeWindows
    /\ decoded = "idle"
    /\ query \in [location : RelativeLocations]
    /\ resolved = "idle"
    /\ DisIdle

\* Disassembler::resolve_branch_address(location): the window is decoded, and
\* the instruction's branch address, if any, is resolved at the location.
resolve_branch_address ==
    /\ pc = "relative"
    /\ LET ins == from_bytes(window)
       IN  /\ decoded' = ins
           /\ resolved' = IF ins.tag = "Some"
                          THEN resolve_address(branch_address(ins), query.location)
                          ELSE NoOffset
    /\ pc' = "relative_done"
    /\ UNCHANGED <<app_vars, window, query, dis_vars>>

SpecRelative == InitRelative /\ [][resolve_branch_address]_vars

(***************************************************************************)
(* disassembler.rs: Disassembler over the GameBoy architecture             *)
(***************************************************************************)

DisImages ==
    { <<\h00, \hC3, \h00, \h00>>,     \* NOP; JP 0000
      <<\hC9, \hC7, \hC7, \hC9>>,     \* RET; RST 00; RST 00; RET
      <<\h18, \h00, \hC9>>,           \* JR +0; RET
      <<\hD3, \hC9>>,                 \* illegal; RET
      <<\hC3, \hD3, \h00, \hC9>>,     \* JP 00D3; RET
      <<\hC9, \hC3, \h00>>,           \* RET; JP truncated
      <<\h00>> }                      \* NOP

\* The offsets of the rom.
RomOffsets == 0 .. (Len(rom) - 1)

\* The Application's fields and the history of its commands, but for `address`
\* and `pass`, which mark_code's local cursor and the history of its call use.
idle_vars == <<bytes, types, type_changes, labels, banks, selected_address,
               follow_stack, follow_stack_top, running, input, text, trail,
               came_from, window, decoded, query, resolved>>

\* Disassembler::new(rom): every byte Unknown.
InitDis ==
    /\ AppIdle
    /\ window = <<>>
    /\ decoded = "idle"
    /\ query = "idle"
    /\ resolved = "idle"
    /\ pc = "dis_idle"
    /\ rom \in DisImages
    /\ state_byte_type = [o \in RomOffsets |-> "Unknown"]
    /\ branches = <<>>
    /\ aligned = NoCall

\* Disassembler::mark_data
mark_data ==
    /\ pc = "dis_idle"
    /\ \E a \in RomOffsets :
          state_byte_type' = [state_byte_type EXCEPT ![a] = "Data"]
    /\ pass' = NoPass(-1)
    /\ UNCHANGED <<idle_vars, pc, rom, branches, address, aligned>>

\* Disassembler::mark_unknown
mark_unknown ==
    /\ pc = "dis_idle"
    /\ \E a \in RomOffsets :
          state_byte_type' = [state_byte_type EXCEPT ![a] = "Unknown"]
    /\ pass' = NoPass(-1)
    /\ UNCHANGED <<idle_vars, pc, rom, branches, address, aligned>>

\* Disassembler::mark_code is called: `let mut branches = vec![address]`.
mark_code ==
    /\ pc = "dis_idle"
    /\ \E seed \in RomOffsets :
          /\ branches' = <<seed>>
          /\ pass' = [seed |-> seed, before |-> state_byte_type, visits |-> <<>>,
                      prev |-> -1, last |-> seed]
    /\ pc' = "dis_pop"
    /\ UNCHANGED <<idle_vars, rom, state_byte_type, address, aligned>>

\* mark_code's outer loop, `while let Some(mut address) = branches.pop()`: the
\* call returns when the worklist is empty.
mark_code_pop ==
    /\ pc = "dis_pop"
    /\ IF branches = <<>>
       THEN pc' = "dis_idle" /\ UNCHANGED <<branches, address>>
       ELSE /\ address' = branches[Len(branches)]
            /\ branches' = SubSeq(branches, 1, Len(branches) - 1)
            /\ pc' = "dis_loop"
    /\ UNCHANGED <<idle_vars, rom, state_byte_type, pass, aligned>>

\* The test at the top of mark_code's inner loop (lines 48-50): the chain is
\* left when the cursor's tag is not Code.
mark_code_breaks(a) == state_byte_type[a] # "Code"

\* One turn of mark_code's inner loop (lines 47-63) at the cursor `address`.
\* The slice &rom[address..] panics for a cursor past the rom's length.
mark_code_step ==
    /\ pc = "dis_loop"
    /\ IF address < 0 \/ address > Len(rom)
       THEN pc' = "fault" /\ UNCHANGED <<state_byte_type, branches, address>>
       ELSE LET ins == from_bytes(SubSeq(rom, address + 1, Len(rom)))
                r == IF ins.tag = "Some"
                     THEN resolve_address(branch_address(ins), address)
                     ELSE NoOffset
            IN  CASE ins.tag = "Panic" ->
                       pc' = "fault" /\ UNCHANGED <<state_byte_type, branches, address>>
                  [] ins.tag = "None" ->
                       pc' = "dis_pop" /\ UNCHANGED <<state_byte_type, branches, address>>
                  [] ins.tag = "Some" /\ mark_code_breaks(address) ->
                       pc' = "dis_pop" /\ UNCHANGED <<state_byte_type, branches, address>>
                  [] OTHER ->
                       /\ state_byte_type' = [state_byte_type EXCEPT ![address] = "Code"]
                       /\ branches' = IF r.tag = "Some"
                                      THEN Append(branches, r.value)
                                      ELSE branches
                       /\ IF ~falls_through(ins)
                          THEN pc' = "dis_pop" /\ UNCHANGED address
                          ELSE pc' = "dis_loop" /\ address' = address + size(ins)
    /\ UNCHANGED <<idle_vars, rom, pass, aligned>>

\* Disassembler::align_address_to_valid_location: a Data or Code address is
\* returned as it is; for an Unknown one, back_offset runs over
\* 1..3.min(address + 1) and address - back_offset is returned at the first
\* back_offset where disassemble(&rom[address - back_offset..]) is Some; the
\* address itself when there is none.  -1 stands for a panic of the decoder.
align_address_to_valid_location(a) ==
    IF state_byte_type[a] \in {"Data", "Code"}
    THEN a
    ELSE LET probe(back_offset) ==
                 from_bytes(SubSeq(rom, a - back_offset + 1, Len(rom)))
             upper == IF 3 < a + 1 THEN 3 ELSE a + 1
         IN  IF ~(1 < upper) THEN a
             ELSE IF probe(1).tag = "Panic" THEN -1
             ELSE IF probe(1).tag = "Some" THEN a - 1
             ELSE IF ~(2 < upper) THEN a
             ELSE IF probe(2).tag = "Panic" THEN -1
             ELSE IF probe(2).tag = "Some" THEN a - 2
             ELSE a

\* A call of align_address_to_valid_location on an offset of the rom.
Align ==
    /\ pc = "dis_idle"
    /\ \E a \in RomOffsets :
          LET r == align_address_to_valid_location(a)
          IN  /\ aligned' = [address |-> a, byte_type |-> state_byte_type[a],
                             result |-> r]
              /\ pc' = IF r = -1 THEN "fault" ELSE pc
    /\ UNCHANGED <<idle_vars, rom, state_byte_type, branches, address, pass>>

NextDis ==
    \/ mark_data
    \/ mark_unknown
    \/ mark_code
    \/ mark_code_pop
    \/ mark_code_step
    \/ Align

SpecDis == InitDis /\ [][NextDis]_vars

(***************************************************************************)
(* Properties                                                              *)
(***************************************************************************)

\* A mark Code command is in progress, or has just completed (pc = "draw").
InPass == pass.seed # -1

\* The mark Code command has run to completion: its queue is drained and
\* control is back at the top of run's loop.
PassDone == InPass /\ pc = "draw"

\* The instruction at a decodes.
Decodes(a) == instruction_at(a).tag = "Some"

\* C1 (non-downgrade): at every step of a discovery pass and after it, every
\* offset other than the seed that was tagged Data when the mark Code command
\* was issued is still tagged Data.
C1_NonDowngrade ==
    InPass =>
        \A o \in Offsets :
            (o # pass.seed /\ pass.before[o] = "Data") => types[o] = "Data"

\* A completed pass that reached one Data-tagged offset by fallthrough and
\* another as a resolved branch target of an instruction it visited.
C1_Witness ==
    /\ PassDone
    /\ \E a, o \in Offsets :
          /\ pass.visits[a] > 0 /\ Decodes(a)
          /\ falls_through(instruction_at(a))
          /\ o = a + size(instruction_at(a))
          /\ o # pass.seed /\ pass.before[o] = "Data" /\ types[o] = "Data"
    /\ \E a, o \in Offsets :
          /\ pass.visits[a] > 0 /\ Decodes(a)
          /\ o = JumpTarget(a, instruction_at(a))
          /\ o # pass.seed /\ pass.before[o] = "Data" /\ types[o] = "Data"

\* C2 (termination), as stated: a mark Code command stops only by returning to
\* the loop with the pending queue empty; it never stops anywhere else.
C2_MarkCodeTerminates ==
    (InPass /\ pc \notin {"drain", "chain"}) => (pc = "draw" /\ type_changes = <<>>)

\* C3 (bounded work), as stated: within one mark Code command no offset is
\* visited (popped, or decoded as a chain cursor) more than once.
C3_VisitedAtMostOnce ==
    InPass => \A o \in Offsets : pass.visits[o] <= 1

\* C4 (idempotence): when a mark Code command at offset a has completed and the
\* command before it was a completed mark Code at the same offset a, the tag
\* table is the one the first command left.
C4_Idempotent ==
    (PassDone /\ pass.prev = pass.seed) => types = pass.before

\* A second mark Code in a row at the same offset has completed, on a table in
\* which discovery had tagged more than the seed.
C4_Witness ==
    /\ PassDone
    /\ pass.prev = pass.seed
    /\ \E o \in Offsets : o # pass.seed /\ types[o] = "Code"
    /\ \E o \in Offsets : types[o] = "Unknown"

ScenarioA == <<\h00, \hC3, \h00, \h00>>

\* mark Code at offset 0 of Scenario A's image with every tag Unknown.
InScenarioA ==
    /\ bytes = ScenarioA
    /\ pass.seed = 0
    /\ pass.before = [o \in 0 .. 3 |-> "Unknown"]

\* C5 (Scenario A): the command does not fault, never tags offsets 2 and 3, and
\* ends with offsets 0 and 1 Code, 2 and 3 Unknown, the queue empty; the JP at
\* offset 1 resolves to offset 0, and offset 0 is visited once only.
C5_ScenarioA ==
    InScenarioA =>
        /\ pc # "fault"
        /\ types[2] = "Unknown" /\ types[3] = "Unknown"
        /\ pass.visits[0] <= 1
        /\ JumpTarget(1, instruction_at(1)) = 0
        /\ pc = "draw" =>
              /\ types = (0 :> "Code" @@ 1 :> "Code" @@ 2 :> "Unknown" @@ 3 :> "Unknown")
              /\ type_changes = <<>>
              /\ pass.visits = (0 :> 1 @@ 1 :> 1 @@ 2 :> 0 @@ 3 :> 0)

C5_Witness == InScenarioA /\ pc = "draw"

\* The bytes a window must hold for its first byte's arm of from_bytes: the
\* opcode and its operand bytes.
NeededBytes(b) ==
    CASE Variant(b) \in Imm16Variants -> 3
      [] Variant(b) \in Imm8Variants \cup {"Special"} -> 2
      [] OTHER -> 1

\* The window is empty, or shorter than its opcode needs.
Truncated(w) == w = <<>> \/ Len(w) < NeededBytes(w[1])

\* C6 (Scenario B), as stated: decoding a window that is empty or holds fewer
\* bytes than its opcode needs returns no instruction, without a fault.
C6_TruncatedIsNone ==
    (pc = "decoded" /\ Truncated(window)) => decoded = NoInstruction

ScenarioC == [read_at |-> \h4500, addr |-> \h5000, banks |-> EmptyMap]

\* C7 (Scenario C), as stated: 0x5000 read at 0x4500 with no bank assigned
\* resolves to UnknownBank(0x1000).
C7_ScenarioC_Original ==
    (pc = "resolved" /\ query = ScenarioC) => resolved = UnknownBank(\h1000)

\* C7 (Scenario C), amended: 0x5000 read at 0x4500 with no bank assigned
\* resolves to Physical(0x5000), the bank being inferred from the read location;
\* it resolves to UnknownBank(0x1000) when read, with no bank assigned, at a
\* location outside [0x4000, 0x8000).
C7_ScenarioC ==
    /\ (pc = "resolved" /\ query = ScenarioC) => resolved = Physical(\h5000)
    /\ (/\ pc = "resolved"
        /\ query.addr = \h5000
        /\ query.banks = EmptyMap
        /\ (query.read_at < \h4000 \/ query.read_at >= \h8000))
       => resolved = UnknownBank(\h1000)

C7_Witness == pc = "resolved" /\ query = ScenarioC

\* C8 (history truncation), as stated: after a follow or goto that came right
\* after one or more back steps, no forward target is left (a forward step
\* finds follow_stack_next = None and is a no-op).
C8_FollowTruncates ==
    trail.fab >= 1 => follow_stack_next = -1

\* C9 (history symmetry): after a run of follows / gotos that each pushed the
\* history, every m-th consecutive back step puts the cursor on the offset the
\* m-th last follow of the run was issued from; with m = N, the offset before
\* the last N follows.
C9_HistorySymmetry ==
    trail.backs > 0 =>
        selected_address = trail.xs[Len(trail.xs) - trail.backs + 1]

\* Three follows from three different offsets, then three back steps.
C9_Witness ==
    /\ Len(trail.xs) = 3
    /\ trail.backs = 3
    /\ Cardinality({trail.xs[1], trail.xs[2], trail.xs[3]}) = 3

\* C10 (alignment, forward): a `j` from offset a puts the cursor on a + L when
\* a is tagged Code and an instruction of length L decodes there, and on a + 1
\* otherwise; it does not fault.
C10_ForwardAligned ==
    input = "j" =>
        /\ pc = "drain"
        /\ selected_address =
              IF types[came_from] = "Code" /\ Decodes(came_from)
              THEN came_from + size(instruction_at(came_from))
              ELSE came_from + 1

\* A `j` from a Code-tagged instruction of two or three bytes, and the operand
\* byte it steps over decodes as an instruction of its own.
C10_Witness ==
    /\ input = "j"
    /\ types[came_from] = "Code" /\ Decodes(came_from)
    /\ size(instruction_at(came_from)) >= 2
    /\ selected_address = came_from + size(instruction_at(came_from))
    /\ Decodes(came_from + 1)

\* C11 (alignment, backward), as stated: a `k` that moves the cursor back onto
\* an Unknown-tagged offset o puts it on s, for every Code-tagged instruction
\* starting at s whose bytes span o (s < o < s + length).
C11_BackwardAligned ==
    (input = "k" /\ came_from > 0) =>
        LET o == came_from - 1
        IN  types[o] = "Unknown" =>
                \A s \in Offsets :
                    (/\ s < o
                     /\ types[s] = "Code"
                     /\ Decodes(s)
                     /\ o < s + size(instruction_at(s)))
                    => selected_address = s

\* C12 (label stability): no step of a discovery pass changes or removes a label
\* an offset already has, whether the user set it or discovery did; a default
\* label is inserted only at an offset that has none.
C12_LabelStable ==
    [][(pc \in {"drain", "chain"}) =>
          (\A o \in DOMAIN labels :
              o \in DOMAIN labels' /\ labels'[o] = labels[o])]_vars

\* A completed pass in which an instruction resolved its branch target to an
\* offset carrying the label the user had set, and inserted a default label at
\* no offset or another.
C12_Witness ==
    /\ PassDone
    /\ \E a, o \in Offsets :
          /\ pass.visits[a] > 0 /\ Decodes(a)
          /\ JumpTarget(a, instruction_at(a)) = o
          /\ o \in DOMAIN labels
          /\ labels[o] = <<"a">>

\* C13 (resolution stays inside the image), as stated: for the instruction a
\* discovery chain has decoded at its cursor, the application's resolver returns
\* for its jump address, and the architecture's resolver for its branch address
\* (absolute or relative), either no offset or an offset in [0, N).
C13_ResolvedInImage ==
    (pc = "chain" /\ Decodes(address)) =>
        LET ins == instruction_at(address)
            r == resolve_address(branch_address(ins), address)
        IN  /\ JumpTarget(address, ins) \in Offsets \cup {-1}
            /\ r.tag = "Some" => r.value \in Offsets

\* C14 (history exhaustion): a back step taken with the history cursor at the
\* oldest entry (follow_stack_top = 0) and a forward step taken with it at the
\* newest (follow_stack_top = follow_stack.len()) leave the view cursor, the
\* history and the history cursor unchanged.
C14_ExhaustionNoOp ==
    [][(/\ pc = "input"
        /\ \/ input' = "o" /\ follow_stack_top = 0
           \/ input' = "i" /\ follow_stack_top = Len(follow_stack))
       => UNCHANGED <<selected_address, follow_stack, follow_stack_top>>]_vars

\* A forward step was taken at the newest entry of a history that is not empty:
\* the view cursor is not on the entry a forward step would have returned.
C14_Witness ==
    /\ input = "i"
    /\ follow_stack_top = Len(follow_stack)
    /\ follow_stack_top > 0
    /\ selected_address # follow_stack[follow_stack_top]

HexChars == {"0", "1", "2", "3", "4", "5", "6", "7", "8", "9",
             "a", "b", "c", "d", "e", "f", "A", "B", "C", "D", "E", "F"}

\* The text is no hexadecimal number: it is empty, a lone sign, or holds a
\* character other than a hexadecimal digit or a leading "+".
Malformed(t) ==
    \/ t = <<>>
    \/ t = <<"+">>
    \/ \E i \in 1 .. Len(t) : t[i] \notin HexChars /\ ~(i = 1 /\ t[i] = "+")

\* C15 (invalid input mutates nothing): a goto or bank command given a text
\* that is no hexadecimal number, and a label command given the empty name,
\* leave the cursor, the history, the bank map, the label map and the tag table
\* unchanged.
C15_InvalidInputMutatesNothing ==
    [][(/\ pc = "input"
        /\ \/ input' \in {"G", "b"} /\ Malformed(text')
           \/ input' = "l" /\ text' = <<>>)
       => UNCHANGED <<selected_address, follow_stack, follow_stack_top, banks,
                      labels, types>>]_vars

\* A bank command was given a text that is no hexadecimal number, with a bank
\* assigned, a label set and a tag changed before it.
C15_Witness ==
    /\ input = "b"
    /\ Malformed(text)
    /\ banks # EmptyMap
    /\ labels # EmptyMap
    /\ \E o \in Offsets : types[o] = "Code"

\* C16 (Disassembler::mark_code tags its seed), as stated: when a call of
\* mark_code has returned, its seed was tagged Unknown or Data at the call and an
\* instruction decodes at the seed, the seed is tagged Code.
C16_MarkCodeTagsSeed ==
    (/\ pc = "dis_idle"
     /\ pass.seed # -1
     /\ pass.before[pass.seed] \in {"Unknown", "Data"}
     /\ from_bytes(SubSeq(rom, pass.seed + 1, Len(rom))).tag = "Some")
    => state_byte_type[pass.seed] = "Code"

\* The offset the branch target of the instruction at a resolves to, -1 when
\* it has none or it does not resolve: an absolute target (jump, call, reset
\* vector) by the application's resolver, a relative one by the architecture's.
BranchTarget(a) ==
    LET ins == instruction_at(a)
        la == branch_address(ins)
    IN  CASE la.kind = "Absolute" -> JumpTarget(a, ins)
          [] la.kind = "Relative" -> resolve_address(la, a).value
          [] OTHER -> -1

\* C17 (branch closure), as stated: when a discovery pass has ended, the branch
\* target of every instruction the pass tagged Code, when it resolves to an
\* offset of the image, is not tagged Unknown.
C17_BranchClosure ==
    PassDone =>
        \A a \in Offsets :
            (pass.visits[a] > 0 /\ types[a] = "Code" /\ Decodes(a)) =>
                (BranchTarget(a) \in Offsets => types[BranchTarget(a)] # "Unknown")

\* C18 (end of image ends the chain), as stated: when the chain of a discovery
\* pass has advanced its cursor to or past the end of the image, the pass has
\* not faulted: the chain ends there as any other.
C18_EndOfImageStops ==
    (InPass /\ address >= N) => pc # "fault"

\* The offset o is the resolved jump target of an instruction the pass visited.
IsTargetInPass(o) ==
    \E a \in Offsets :
        /\ pass.visits[a] > 0
        /\ Decodes(a)
        /\ JumpTarget(a, instruction_at(a)) = o

\* C19 (no Code tag on an illegal opcode by fallthrough), as stated: during and
\* after a discovery pass, an offset that was Unknown when the pass began, holds
\* an opcode that does not decode, and is neither the seed nor a jump target of
\* the pass, is still Unknown.
C19_IllegalStaysUnknown ==
    InPass =>
        \A o \in Offsets :
            (/\ o # pass.seed
             /\ pass.before[o] = "Unknown"
             /\ instruction_at(o).tag = "None"
             /\ ~IsTargetInPass(o))
            => types[o] = "Unknown"

\* The address lies in the switchable window.
Switchable(a) == a >= \h4000 /\ a < \h8000

\* C20 (switchable-window resolution order): for an absolute address a in
\* [0x4000, 0x8000) read at r, the result is (a) Physical(0x4000 + a mod 0x4000),
\* bank 1 inferred, when r is in [0x4000, 0x8000), whatever the bank map holds;
\* else (b) Physical(bank * 0x4000 + a mod 0x4000) when the bank map holds bank
\* for r; else (c) UnknownBank(a mod 0x4000).
C20_ResolutionOrder ==
    (pc = "resolved" /\ Switchable(query.addr)) =>
        LET r == query.read_at
            within == query.addr % \h4000
        IN  /\ Switchable(r) => resolved = Physical(\h4000 + within)
            /\ (~Switchable(r) /\ r \in DOMAIN query.banks)
                  => resolved = Physical(query.banks[r] * \h4000 + within)
            /\ (~Switchable(r) /\ r \notin DOMAIN query.banks)
                  => resolved = UnknownBank(within)

\* An address of the switchable window was resolved at a read location of the
\* switchable window to which the bank map assigns another bank than 1.
C20_Witness ==
    /\ pc = "resolved"
    /\ Switchable(query.addr)
    /\ Switchable(query.read_at)
    /\ query.read_at \in DOMAIN query.banks
    /\ query.banks[query.read_at] # 1

\* The cursor is on a Code-tagged instruction that decodes and has a branch
\* target.
OnBranch(c) ==
    /\ types[c] = "Code"
    /\ Decodes(c)
    /\ branch_address(instruction_at(c)).kind # "None"

\* What the absolute branch target of the instruction at c resolves to.
ResolvedTarget(c) ==
    resolve_physical_address(c, branch_address(instruction_at(c)).value, banks)

\* C21 (follow degrades gracefully): a follow command issued with the cursor c
\* not on a Code-tagged decodable instruction, on an instruction with no branch
\* target, or on one whose target resolves to UnknownBank or System, leaves the
\* view cursor and the history unchanged; a follow command that changes either
\* has resolved the target to a physical offset, has pushed c on the history
\* and has moved the cursor to that offset.
C21_FollowDegrades ==
    [][(pc = "input" /\ input' = "f") =>
          LET c == selected_address
              absolute == OnBranch(c)
                          /\ branch_address(instruction_at(c)).kind = "Absolute"
          IN  /\ (\/ ~OnBranch(c)
                  \/ absolute /\ ResolvedTarget(c).kind \in {"UnknownBank", "System"})
                 => UNCHANGED <<selected_address, follow_stack, follow_stack_top>>
              /\ ~(UNCHANGED <<selected_address, follow_stack, follow_stack_top>>)
                 => /\ absolute
                    /\ ResolvedTarget(c).kind = "Physical"
                    /\ follow_stack_top' = follow_stack_top + 1
                    /\ follow_stack'[follow_stack_top'] = c
                    /\ selected_address' = ResolvedTarget(c).value]_vars

\* A follow command was issued on a Code-tagged jump whose target resolves to
\* System, and the cursor is where it was.
C21_Witness ==
    /\ input = "f"
    /\ pc = "drain"
    /\ OnBranch(came_from)
    /\ ResolvedTarget(came_from).kind = "System"
    /\ selected_address = came_from

\* C22 (default labels), as stated: when a discovery pass has ended, the branch
\* target (absolute or relative) of every instruction the pass processed, when
\* it resolves to an offset of the image, has a label.
C22_TargetsLabelled ==
    PassDone =>
        \A a \in Offsets :
            (pass.visits[a] > 0 /\ types[a] = "Code" /\ Decodes(a)) =>
                (BranchTarget(a) \in Offsets => BranchTarget(a) \in DOMAIN labels)

\* The mark Code command in progress was issued on a Data-tagged offset.
RemarksData == InPass /\ pass.before[pass.seed] = "Data"

\* C23 (re-marking Data as Code): once the seed of a mark Code command issued on
\* a Data-tagged offset has been popped, the seed is Code; and when the command
\* has ended, for every instruction it processed, the offset it falls through to
\* and the offset its jump address resolves to are Code if they were Unknown
\* when the command was issued.
C23_RemarkData ==
    RemarksData =>
        /\ pass.visits[pass.seed] > 0 => types[pass.seed] = "Code"
        /\ PassDone =>
              \A a \in Offsets :
                  (pass.visits[a] > 0 /\ Decodes(a)) =>
                      LET ins == instruction_at(a)
                          next == a + size(ins)
                          target == JumpTarget(a, ins)
                      IN  /\ (falls_through(ins) /\ pass.before[next] = "Unknown")
                                => types[next] = "Code"
                          /\ (target \in Offsets /\ pass.before[target] = "Unknown")
                                => types[target] = "Code"

\* A mark Code command on a Data-tagged offset has ended, having tagged Code an
\* Unknown offset the seed's instruction falls through to and an Unknown offset
\* its jump address resolves to.
C23_Witness ==
    /\ RemarksData
    /\ PassDone
    /\ Decodes(pass.seed)
    /\ LET ins == instruction_at(pass.seed)
           next == pass.seed + size(ins)
           target == JumpTarget(pass.seed, ins)
       IN  /\ falls_through(ins)
           /\ pass.before[next] = "Unknown" /\ types[next] = "Code"
           /\ target \in Offsets
           /\ pass.before[target] = "Unknown" /\ types[target] = "Code"

\* C24 (explicit Data override): from the `d` key to the end of its command, no
\* step changes the tag of an offset other than the cursor, a label, a bank
\* assignment, the history or the cursor; and when the command ends, the
\* cursor's offset is tagged Data.
C24_DataOverride ==
    [][(\/ pc = "input" /\ input' = "d"
        \/ pc = "drain" /\ input = "d")
       => /\ UNCHANGED <<labels, banks, selected_address, follow_stack,
                         follow_stack_top>>
          /\ \A o \in Offsets :
                o # selected_address => types'[o] = types[o]
          /\ pc' \in {"drain", "draw", "quit"}
          /\ pc' \in {"draw", "quit"} => types'[selected_address] = "Data"]_vars

\* A `d` command has tagged Data the cursor's offset, which carries a default
\* label (it was explored as a branch target), with another offset tagged Code,
\* a bank assigned and a non-empty history.
C24_Witness ==
    /\ input = "d"
    /\ pc = "drain"
    /\ type_changes = <<>>
    /\ types[selected_address] = "Data"
    /\ selected_address \in DOMAIN labels
    /\ labels[selected_address] = DefaultLabel(selected_address)
    /\ \E o \in Offsets : types[o] = "Code"
    /\ banks # EmptyMap
    /\ follow_stack # <<>>

\* The instruction decoded at start, if any, spans across offset a.
SpansAcross(start, a) ==
    LET ins == from_bytes(SubSeq(rom, start + 1, Len(rom)))
    IN  /\ start >= 0
        /\ ins.tag = "Some"
        /\ start + size(ins) > a

\* The offset the alignment is said to return for a and its tag.
EarliestSpanning(a, tag) ==
    IF tag \in {"Data", "Code"} THEN a
    ELSE IF SpansAcross(a - 2, a) THEN a - 2
    ELSE IF SpansAcross(a - 1, a) THEN a - 1
    ELSE a

C26_QueueDrained ==
    pc \in {"draw", "input"} => type_changes = <<>>

\* The next key is about to be read right after a mark Code command, with a
\* branch target that discovery pushed (it carries its default label) tagged
\* Code by the drain.
C26_Witness ==
    /\ pc = "input"
    /\ type_changes = <<>>
    /\ pass.last # -1
    /\ \E o \in Offsets :
          /\ o # pass.last
          /\ o \in DOMAIN labels
          /\ labels[o] = DefaultLabel(o)
          /\ types[o] = "Code"

\* C27 (only mark Code and mark Data change tags): a step that changes the tag
\* table belongs to the drain of a `c` or `d` command, and no step changes the
\* image bytes or the set of offsets that carry a tag, which is [0, N).
C27_OnlyMarksChangeTags ==
    [][/\ types' # types => (pc \in {"drain", "chain"} /\ input \in {"c", "d"})
       /\ bytes' = bytes
       /\ DOMAIN types = Offsets
       /\ DOMAIN types' = Offsets]_vars

\* A follow has pushed history and set the cursor on its target, on a table
\* that holds Code, Data and Unknown tags, with a bank assigned and a label
\* present.
C27_Witness ==
    /\ input = "f"
    /\ pc = "drain"
    /\ trail.xs # <<>>
    /\ trail.backs = 0
    /\ follow_stack # <<>>
    /\ banks # EmptyMap
    /\ labels # EmptyMap
    /\ \E o \in Offsets : types[o] = "Code"
    /\ \E o \in Offsets : types[o] = "Data"
    /\ \E o \in Offsets : types[o] = "Unknown"

\* The signed 8-bit value of the byte b.
Displacement(b) == ((b + 128) % 256) - 128

\* C28 (relative branch resolution): for JR, JR Z and JR NZ at location L with
\* displacement d, the instruction has length 2 and, when L + 2 + d >= 0, its
\* resolved branch address is L + 2 + d.
C28_RelativeResolution ==
    (pc = "relative_done" /\ window[1] \in {\h18, \h20, \h28}) =>
        LET L == query.location
            d == Displacement(window[2])
        IN  /\ decoded.tag = "Some"
            /\ size(decoded) = 2
            /\ L + 2 + d >= 0 => resolved = SomeOffset(L + 2 + d)

\* A conditional relative jump with the lowest displacement, -128, was resolved
\* to offset 0, behind its own location.
C28_Witness ==
    /\ pc = "relative_done"
    /\ window = <<\h28, \h80>>
    /\ query.location = 126
    /\ resolved = SomeOffset(0)

\* C29 (cursor inside the image), as stated: in every state the commands
\* reach, the selected offset is in [0, N).
C29_CursorInImage ==
    selected_address \in Offsets

\* C30 (back then forward is a round trip), as stated: a forward step taken
\* right after the one back step that followed a follow or goto from x to y
\* (the cursor is back on x) puts the cursor on y.
C30_BackForwardRoundTrip ==
    [][(/\ pc = "input"
        /\ input' = "i"
        /\ trail.backs = 1
        /\ selected_address = trail.xs[Len(trail.xs)])
       => selected_address' = trail.dest]_vars

\* C31 (tags move only upward under discovery): a step of a discovery pass
\* changes the tag of an offset other than the seed only from Unknown to Code,
\* and no step of any command gives the tag Unknown to an offset whose tag is
\* not Unknown.
C31_TagsMoveUpward ==
    [][\A o \in Offsets :
          /\ (InPass /\ o # pass.seed /\ types'[o] # types[o])
                => (types[o] = "Unknown" /\ types'[o] = "Code")
          /\ types[o] # "Unknown" => types'[o] # "Unknown"]_vars

\* A discovery pass seeded on a Data-tagged offset has completed: the seed is
\* Code and another offset, Unknown before the pass, is Code.
C31_Witness ==
    /\ PassDone
    /\ pass.before[pass.seed] = "Data"
    /\ types[pass.seed] = "Code"
    /\ \E o \in Offsets :
          /\ o # pass.seed
          /\ pass.before[o] = "Unknown"
          /\ types[o] = "Code"

\* C32 (bank self-inference covers every bank), as stated: an absolute address
\* a in [0x4000, 0x8000) read at a location r >= 0x4000 that has no bank
\* assigned resolves to Physical((r div 0x4000) * 0x4000 + a mod 0x4000), also
\* when r >= 0x8000.
C32_InferenceEveryBank ==
    (/\ pc = "resolved"
     /\ Switchable(query.addr)
     /\ query.read_at >= \h4000
     /\ query.read_at \notin DOMAIN query.banks)
    => resolved = Physical((query.read_at \div \h4000) * \h4000
                           + (query.addr % \h4000))

\* C33 (history cursor invariant): in every state the commands reach,
\* 0 <= follow_stack_top <= follow_stack.len(); the entry a back step reads
\* (when follow_stack_top # 0) and the entry a forward step reads or a push
\* overwrites (when follow_stack_top # follow_stack.len()) are entries of the
\* stack.
C33_HistoryCursor ==
    /\ follow_stack_top \in 0 .. Len(follow_stack)
    /\ follow_stack_top # 0 => follow_stack_top \in DOMAIN follow_stack
    /\ follow_stack_top # Len(follow_stack)
          => (follow_stack_top + 1) \in DOMAIN follow_stack

\* A goto issued after two back steps has overwritten the middle entry of a
\* history of three and left the history cursor strictly inside it.
C33_Witness ==
    /\ input = "G"
    /\ pc = "drain"
    /\ trail.fab = 2
    /\ Len(follow_stack) = 3
    /\ follow_stack_top = 2

====
